---- MODULE Spec2Model ----
(***************************************************************************)
(* A model of torchmetrics/functional/text/rouge.py: the ROUGE-N / ROUGE-L *)
(* scoring functions and the rouge_score entry point.                      *)
(*                                                                         *)
(* Numbers: the code computes Python floats and float32 tensors.  The      *)
(* model computes the same quotients exactly, as normalised fractions      *)
(* <<numerator, denominator>>; <<0, 0>> is the NaN that the mean of an     *)
(* empty tensor yields.  A text is a sequence of one-character strings, a  *)
(* token is a non-empty sequence of characters.                            *)
(***************************************************************************)
EXTENDS Integers, Sequences, FiniteSets, TLC

VARIABLES
    \* the scoring functions called on their own
    fn_pred, fn_target, fn_n, fn_called, fn_lcs, fn_score,
    \* the environment and the arguments of rouge_score
    NLTK_AVAILABLE, preds, target, accumulate, use_stemmer, rouge_keys,
    \* the locals of rouge_score and _rouge_score_update
    pc, exc, rouge_keys_values, n_done, list_results, results, returned,
    \* how many times _normalize_and_tokenize_text and a scoring function ran
    n_tokenized, n_scored

fn_vars == <<fn_pred, fn_target, fn_n, fn_called, fn_lcs, fn_score>>
in_vars == <<NLTK_AVAILABLE, preds, target, accumulate, use_stemmer, rouge_keys>>
run_vars == <<pc, exc, rouge_keys_values, n_done, list_results, results, returned,
              n_tokenized, n_scored>>
vars == <<fn_vars, in_vars, run_vars>>

(***************************************************************************)
(* Bounds of the model.                                                    *)
(***************************************************************************)
MaxLen == 4
MaxN == 3

(***************************************************************************)
(* Exact arithmetic on fractions.                                          *)
(***************************************************************************)
Min(a, b) == IF a <= b THEN a ELSE b
Max(a, b) == IF a >= b THEN a ELSE b

RECURSIVE GCD(_, _)
GCD(a, b) == IF b = 0 THEN a ELSE GCD(b, a % b)

NaN == <<0, 0>>
Rat(n, d) == IF d = 0 THEN NaN ELSE LET g == GCD(n, d) IN <<n \div g, d \div g>>
Zero == Rat(0, 1)
One == Rat(1, 1)
RatAdd(x, y) == Rat(x[1] * y[2] + y[1] * x[2], x[2] * y[2])
RatMul(x, y) == Rat(x[1] * y[1], x[2] * y[2])
RatDiv(x, y) == Rat(x[1] * y[2], x[2] * y[1])
RatLeq(x, y) == x[2] > 0 /\ y[2] > 0 /\ x[1] * y[2] <= y[1] * x[2]
RatLt(x, y) == x[2] > 0 /\ y[2] > 0 /\ x[1] * y[2] < y[1] * x[2]

SeqsUpTo(S, k) == UNION {[1..m -> S] : m \in 0..k}

RECURSIVE SumValues(_)
SumValues(c) ==
    IF DOMAIN c = {} THEN 0
    ELSE LET w == CHOOSE v \in DOMAIN c : TRUE
         IN  c[w] + SumValues([v \in DOMAIN c \ {w} |-> c[v]])

(***************************************************************************)
(* A raised exception is a record with the single field exc; a score       *)
(* triple is the dict(precision=, recall=, fmeasure=) of the code.         *)
(***************************************************************************)
ZeroDivisionError == [exc |-> "ZeroDivisionError"]
Raised(score) == "exc" \in DOMAIN score
Triple(p, r, f) == [precision |-> p, recall |-> r, fmeasure |-> f]

(***************************************************************************)
(* _compute_metrics: hits / pred_len and hits / target_len raise on a zero *)
(* length; the all-zero case returns before the harmonic mean is taken.    *)
(***************************************************************************)
_compute_metrics(hits_or_lcs, pred_len, target_len) ==
    IF pred_len = 0 \/ target_len = 0 THEN ZeroDivisionError
    ELSE LET precision == Rat(hits_or_lcs, pred_len)
             recall == Rat(hits_or_lcs, target_len)
         IN  IF precision = Zero /\ recall = Zero
             THEN Triple(Zero, Zero, Zero)
             ELSE Triple(precision, recall,
                         RatDiv(RatMul(Rat(2, 1), RatMul(precision, recall)),
                                RatAdd(precision, recall)))

(***************************************************************************)
(* _lcs: the (T+1) x (P+1) table, filled by the recurrence of the loop.    *)
(***************************************************************************)
_lcs_drop_max(pred_tokens, target_tokens) ==
    LET T == Len(target_tokens)
        P == Len(pred_tokens)
        LCS[i \in 0..T, j \in 0..P] ==
            IF i = 0 \/ j = 0 THEN 0
            ELSE IF target_tokens[i] = pred_tokens[j]
                 THEN LCS[i - 1, j - 1] + 1
                 ELSE LCS[i - 1, j]
    IN  LCS[T, P]

_lcs(pred_tokens, target_tokens) ==
    LET T == Len(target_tokens)
        P == Len(pred_tokens)
        LCS[i \in 0..T, j \in 0..P] ==
            IF i = 0 \/ j = 0 THEN 0
            ELSE IF target_tokens[i] = pred_tokens[j]
                 THEN LCS[i - 1, j - 1] + 1
                 ELSE Max(LCS[i - 1, j], LCS[i, j - 1])
    IN  LCS[T, P]

(***************************************************************************)
(* _create_ngrams: the Counter of the windows tokens[i : i + n].           *)
(***************************************************************************)
_create_ngrams(tokens, n) ==
    LET starts == 1..(Len(tokens) - n + 1)
        window(i) == SubSeq(tokens, i, i + n - 1)
    IN  [w \in {window(i) : i \in starts} |->
            Cardinality({i \in starts : window(i) = w})]

Count(counter, w) == IF w \in DOMAIN counter THEN counter[w] ELSE 0

(***************************************************************************)
(* _rouge_n_score.                                                         *)
(***************************************************************************)
_rouge_n_score_set_hits(pred, tgt, n_gram) ==
    LET pred_ngrams == _create_ngrams(pred, n_gram)
        target_ngrams == _create_ngrams(tgt, n_gram)
        pred_len == SumValues(pred_ngrams)
        target_len == SumValues(target_ngrams)
    IN  IF pred_len = 0 \/ target_len = 0
        THEN Triple(Zero, Zero, Zero)
        ELSE LET hits == Cardinality(DOMAIN pred_ngrams \cap DOMAIN target_ngrams)
             IN  _compute_metrics(hits, Max(pred_len, 1), Max(target_len, 1))

_rouge_n_score_target_counts(pred, tgt, n_gram) ==
    LET pred_ngrams == _create_ngrams(pred, n_gram)
        target_ngrams == _create_ngrams(tgt, n_gram)
        pred_len == SumValues(pred_ngrams)
        target_len == SumValues(target_ngrams)
    IN  IF pred_len = 0 \/ target_len = 0
        THEN Triple(Zero, Zero, Zero)
        ELSE LET hits == SumValues([w \in DOMAIN pred_ngrams |->
                                Count(target_ngrams, w)])
             IN  _compute_metrics(hits, Max(pred_len, 1), Max(target_len, 1))

_rouge_n_score(pred, tgt, n_gram) ==
    LET pred_ngrams == _create_ngrams(pred, n_gram)
        target_ngrams == _create_ngrams(tgt, n_gram)
        pred_len == SumValues(pred_ngrams)
        target_len == SumValues(target_ngrams)
    IN  IF pred_len = 0 \/ target_len = 0
        THEN Triple(Zero, Zero, Zero)
        ELSE LET hits == SumValues([w \in DOMAIN pred_ngrams |->
                                Min(pred_ngrams[w], Count(target_ngrams, w))])
             IN  _compute_metrics(hits, Max(pred_len, 1), Max(target_len, 1))

(***************************************************************************)
(* _rouge_l_score.                                                         *)
(***************************************************************************)
_rouge_l_score_no_guard(pred, tgt) ==
    _compute_metrics(_lcs(pred, tgt), Len(pred), Len(tgt))

_rouge_l_score(pred, tgt) ==
    LET pred_len == Len(pred)
        target_len == Len(tgt)
    IN  IF pred_len = 0 \/ target_len = 0
        THEN Triple(Zero, Zero, Zero)
        ELSE _compute_metrics(_lcs(pred, tgt), pred_len, target_len)

(***************************************************************************)
(* _normalize_and_tokenize_text: lower-case, replace every run of          *)
(* characters outside [a-z0-9] by one space, split on whitespace, stem     *)
(* the tokens longer than 3 characters, drop what is not [a-z0-9]+.        *)
(***************************************************************************)
UpperCase == <<"A", "B", "C", "D", "E", "F", "G", "H", "I", "J", "K", "L", "M",
               "N", "O", "P", "Q", "R", "S", "T", "U", "V", "W", "X", "Y", "Z">>
LowerCase == <<"a", "b", "c", "d", "e", "f", "g", "h", "i", "j", "k", "l", "m",
               "n", "o", "p", "q", "r", "s", "t", "u", "v", "w", "x", "y", "z">>
Digits == {"0", "1", "2", "3", "4", "5", "6", "7", "8", "9"}
AlnumChars == {LowerCase[k] : k \in DOMAIN LowerCase} \cup Digits
Whitespace == {" ", "\n", "\t"}

lower(text) ==
    [k \in DOMAIN text |->
        IF \E u \in DOMAIN UpperCase : UpperCase[u] = text[k]
        THEN LowerCase[CHOOSE u \in DOMAIN UpperCase : UpperCase[u] = text[k]]
        ELSE text[k]]

RECURSIVE DropWhile(_, _)
DropWhile(text, S) ==
    IF text # <<>> /\ Head(text) \in S THEN DropWhile(Tail(text), S) ELSE text

RECURSIVE DropUntil(_, _)
DropUntil(text, S) ==
    IF text # <<>> /\ Head(text) \notin S THEN DropUntil(Tail(text), S) ELSE text

\* re.sub(r"[^a-z0-9]+", " ", text)
RECURSIVE sub_non_alnum(_)
sub_non_alnum(text) ==
    IF text = <<>> THEN <<>>
    ELSE IF Head(text) \in AlnumChars
         THEN <<Head(text)>> \o sub_non_alnum(Tail(text))
         ELSE <<" ">> \o sub_non_alnum(DropUntil(text, AlnumChars))

\* re.split(r"\s+", text): the pieces between the whitespace runs, empty ones kept
RECURSIVE split_whitespace(_)
split_whitespace(text) ==
    IF \A k \in DOMAIN text : text[k] \notin Whitespace THEN <<text>>
    ELSE LET k == CHOOSE k \in DOMAIN text :
                     /\ text[k] \in Whitespace
                     /\ \A l \in 1..(k - 1) : text[l] \notin Whitespace
         IN  <<SubSeq(text, 1, k - 1)>>
                 \o split_whitespace(DropWhile(SubSeq(text, k, Len(text)), Whitespace))

\* nltk's PorterStemmer.stem, an external collaborator: the tokens of the texts
\* below have at most 3 characters, which the code never hands to it
PorterStem(token) == token

_normalize_and_tokenize_text(text, stemmer) ==
    LET split == split_whitespace(sub_non_alnum(lower(text)))
        stemmed == [k \in DOMAIN split |->
                       IF stemmer /\ Len(split[k]) > 3 THEN PorterStem(split[k])
                       ELSE split[k]]
        valid(x) == x # <<>> /\ \A k \in DOMAIN x : x[k] \in AlnumChars
    IN  SelectSeq(stemmed, valid)

(***************************************************************************)
(* _add_newline_to_end_of_each_sentence, when nltk is available: the       *)
(* sentences of nltk.sent_tokenize joined by "\n".  sent_tokenize is       *)
(* modelled as ending a sentence at a "." that whitespace follows.         *)
(***************************************************************************)
RECURSIVE sent_tokenize(_)
sent_tokenize(text) ==
    LET x == DropWhile(text, Whitespace)
        ends == {k \in 1..(Len(x) - 1) : x[k] = "." /\ x[k + 1] \in Whitespace}
    IN  IF x = <<>> THEN <<>>
        ELSE IF ends = {} THEN <<x>>
        ELSE LET k == CHOOSE k \in ends : \A l \in ends : k <= l
             IN  <<SubSeq(x, 1, k)>> \o sent_tokenize(SubSeq(x, k + 1, Len(x)))

RECURSIVE join(_, _)
join(sep, parts) ==
    IF parts = <<>> THEN <<>>
    ELSE IF Len(parts) = 1 THEN parts[1]
    ELSE parts[1] \o sep \o join(sep, Tail(parts))

_add_newline_to_end_of_each_sentence(x) == join(<<"\n">>, sent_tokenize(x))

(***************************************************************************)
(* ALLOWED_ROUGE_KEYS.  A metric key is an int or a str in the code: here  *)
(* a record with the one field int or str, so that isinstance(key, int)    *)
(* is "int" \in DOMAIN key.                                                *)
(***************************************************************************)
IntKey(n) == [int |-> n]
StrKey(s) == [str |-> s]
ALLOWED_ROUGE_KEYS ==
    [rouge1 |-> IntKey(1), rouge2 |-> IntKey(2), rouge3 |-> IntKey(3),
     rouge4 |-> IntKey(4), rouge5 |-> IntKey(5), rouge6 |-> IntKey(6),
     rouge7 |-> IntKey(7), rouge8 |-> IntKey(8), rouge9 |-> IntKey(9),
     rougeL |-> StrKey("L"), rougeLsum |-> StrKey("Lsum")]
ALLOWED_ACCUMULATE_VALUES == {"avg", "best"}
Types == {"fmeasure", "precision", "recall"}

Range(f) == {f[k] : k \in DOMAIN f}
Occurrences(keys, key) == Cardinality({k \in DOMAIN keys : keys[k] = key})
Repeat(x, n) == [k \in 1..n |-> x]

(***************************************************************************)
(* rouge_score, lines 355-357: the keys the validation loop rejects.       *)
(***************************************************************************)
unknown_keys_first_only(keys) ==
    {k \in DOMAIN keys : k = 1 /\ keys[k] \notin DOMAIN ALLOWED_ROUGE_KEYS}

unknown_keys(keys) ==
    {k \in DOMAIN keys : keys[k] \notin DOMAIN ALLOWED_ROUGE_KEYS}

(***************************************************************************)
(* _rouge_score_update, lines 220-239: the scores of one reference, a dict *)
(* from the requested keys to score triples (result_inner).                *)
(***************************************************************************)
reference_scores(pred_raw, target_raw_inner, keys, stemmer) ==
    LET pred == _normalize_and_tokenize_text(pred_raw, stemmer)
        pred_Lsum == _normalize_and_tokenize_text(
                         _add_newline_to_end_of_each_sentence(pred_raw), stemmer)
        tgt == _normalize_and_tokenize_text(target_raw_inner, stemmer)
        target_Lsum == _normalize_and_tokenize_text(
                         _add_newline_to_end_of_each_sentence(target_raw_inner), stemmer)
    IN  [rouge_key \in Range(keys) |->
            IF "int" \in DOMAIN rouge_key
            THEN _rouge_n_score(pred, tgt, rouge_key.int)
            ELSE _rouge_l_score(IF rouge_key.str # "Lsum" THEN pred ELSE pred_Lsum,
                                IF rouge_key.str # "Lsum" THEN tgt ELSE target_Lsum)]

\* result_avg: per key, the scores of the references in order, one per
\* occurrence of the key among the requested keys
result_avg_of(scores, keys) ==
    [rouge_key \in Range(keys) |->
        LET c == Occurrences(keys, rouge_key)
        IN  [m \in 1..(Len(scores) * c) |-> scores[((m - 1) \div c) + 1][rouge_key]]]

(***************************************************************************)
(* torch.argmax over a 1-d tensor: a left-to-right scan that moves only to *)
(* a strictly greater value (indices from 1 here).                         *)
(***************************************************************************)
RECURSIVE argmax_scan(_, _, _)
argmax_scan(values, k, best) ==
    IF k > Len(values) THEN best
    ELSE argmax_scan(values, k + 1, IF RatLt(values[best], values[k]) THEN k ELSE best)

argmax(values) == argmax_scan(values, 2, 1)

\* torch.tensor(values).mean()
RECURSIVE RatSum(_)
RatSum(values) == IF values = <<>> THEN Zero ELSE RatAdd(Head(values), RatSum(Tail(values)))

tensor_mean(values) ==
    IF values = <<>> THEN NaN ELSE RatDiv(RatSum(values), Rat(Len(values), 1))

(***************************************************************************)
(* _rouge_score_update, lines 241-247: accumulate == "best".               *)
(***************************************************************************)
best_result_per_key(scores, keys) ==
    [rouge_key \in Range(keys) |->
        scores[argmax([k \in DOMAIN scores |-> scores[k][rouge_key].fmeasure])][rouge_key]]

best_result(scores, keys) ==
    LET key_curr == keys[1]
        all_fmeasure == [k \in DOMAIN scores |-> scores[k][key_curr].fmeasure]
        highest_idx == argmax(all_fmeasure)
    IN  [rouge_key \in Range(keys) |-> scores[highest_idx][rouge_key]]

(***************************************************************************)
(* _rouge_score_update, lines 249-263: accumulate == "avg".                *)
(***************************************************************************)
avg_result_rederived(result_avg) ==
    [rouge_key \in DOMAIN result_avg |->
        LET metrics == result_avg[rouge_key]
            p == tensor_mean([m \in DOMAIN metrics |-> metrics[m].precision])
            r == tensor_mean([m \in DOMAIN metrics |-> metrics[m].recall])
        IN  IF metrics = <<>> THEN <<>>
            ELSE Triple(p, r, IF p = Zero /\ r = Zero THEN Zero
                              ELSE RatDiv(RatMul(Rat(2, 1), RatMul(p, r)), RatAdd(p, r)))]

avg_result(result_avg) ==
    [rouge_key \in DOMAIN result_avg |->
        LET metrics == result_avg[rouge_key]
            types == UNION {DOMAIN metrics[m] : m \in DOMAIN metrics}
        IN  [_type \in types |->
                tensor_mean([m \in DOMAIN metrics |-> metrics[m][_type]])]]

(***************************************************************************)
(* rouge_score, lines 373-381: the lists of values per (key, type); and    *)
(* _rouge_score_compute.                                                   *)
(***************************************************************************)
RECURSIVE values_of(_, _)
values_of(metrics, type) ==
    IF metrics = <<>> THEN <<>>
    ELSE (IF type \in DOMAIN Head(metrics) THEN <<Head(metrics)[type]>> ELSE <<>>)
             \o values_of(Tail(metrics), type)

output_of(sentence_results, keys) ==
    [kt \in Range(keys) \X Types |-> values_of(sentence_results[kt[1]], kt[2])]

_rouge_score_compute(sentence_results) ==
    IF DOMAIN sentence_results = {} THEN <<>>
    ELSE [rouge_key \in DOMAIN sentence_results |->
             tensor_mean(sentence_results[rouge_key])]

(***************************************************************************)
(* The arguments of rouge_score.  preds is one string or a list of len     *)
(* strings; target is one string, a list of strings or a list of lists of  *)
(* strings, sizes giving the number of strings of each element.  The       *)
(* strings themselves are chosen when the loop of _rouge_score_update      *)
(* reaches them.                                                           *)
(***************************************************************************)
MaxBatch == 2
MaxRefs == 2
MaxKeys == 2
MaxWords == 2

Words == {<<"a">>, <<"B", ".">>}
Texts == {join(<<" ">>, ws) : ws \in SeqsUpTo(Words, MaxWords)}
KeyNames == {"rouge1", "rougeLsum", "rouge10"}

PredsArgs ==
    {[kind |-> "str", len |-> 1]} \cup {[kind |-> "list", len |-> n] : n \in 0..MaxBatch}
TargetArgs ==
    {[kind |-> "str", sizes |-> <<1>>]}
        \cup {[kind |-> "list", sizes |-> Repeat(1, n)] : n \in 0..MaxBatch}
        \cup {[kind |-> "nested", sizes |-> s] :
                 s \in SeqsUpTo(0..MaxRefs, MaxBatch) \ {<<>>}}
RougeKeysArgs ==
    {[kind |-> "str", keys |-> <<k>>] : k \in KeyNames}
        \cup {[kind |-> "tuple", keys |-> t] : t \in SeqsUpTo(KeyNames, MaxKeys) \ {<<>>}}

RougeStart ==
    /\ pc = "start"
    /\ exc = "none"
    /\ rouge_keys_values = <<>>
    /\ n_done = 0
    /\ list_results = <<>>
    /\ results = <<>>
    /\ returned = <<>>
    /\ n_tokenized = 0
    /\ n_scored = 0

RougeIdle ==
    /\ NLTK_AVAILABLE = TRUE
    /\ preds = [kind |-> "list", len |-> 0]
    /\ target = [kind |-> "list", sizes |-> <<>>]
    /\ accumulate = "best"
    /\ use_stemmer = FALSE
    /\ rouge_keys = [kind |-> "tuple", keys |-> <<"rouge1">>]
    /\ pc = "idle"
    /\ exc = "none"
    /\ rouge_keys_values = <<>>
    /\ n_done = 0
    /\ list_results = <<>>
    /\ results = <<>>
    /\ returned = <<>>
    /\ n_tokenized = 0
    /\ n_scored = 0

(***************************************************************************)
(* The scoring functions called on their own: every pair of token          *)
(* sequences of at most MaxLen tokens, every n-gram order up to MaxN.      *)
(***************************************************************************)
Tokens == {<<"a">>, <<"b">>}
NoScore == Triple(NaN, NaN, NaN)

FnIdle ==
    /\ fn_pred = <<>>
    /\ fn_target = <<>>
    /\ fn_n = 1
    /\ fn_called = "idle"
    /\ fn_lcs = 0
    /\ fn_score = NoScore

FnInit ==
    /\ fn_pred \in SeqsUpTo(Tokens, MaxLen)
    /\ fn_target \in SeqsUpTo(Tokens, MaxLen)
    /\ fn_n \in 1..MaxN
    /\ fn_called = "none"
    /\ fn_lcs = 0
    /\ fn_score = NoScore
    /\ RougeIdle

CallLcs ==
    /\ fn_called = "none"
    /\ fn_called' = "_lcs"
    /\ fn_lcs' = _lcs(fn_pred, fn_target)
    /\ UNCHANGED <<fn_pred, fn_target, fn_n, fn_score>>
    /\ UNCHANGED <<in_vars, run_vars>>

CallRougeN ==
    /\ fn_called = "none"
    /\ fn_called' = "_rouge_n_score"
    /\ fn_score' = _rouge_n_score(fn_pred, fn_target, fn_n)
    /\ UNCHANGED <<fn_pred, fn_target, fn_n, fn_lcs>>
    /\ UNCHANGED <<in_vars, run_vars>>

CallRougeL ==
    /\ fn_called = "none"
    /\ fn_called' = "_rouge_l_score"
    /\ fn_score' = _rouge_l_score(fn_pred, fn_target)
    /\ UNCHANGED <<fn_pred, fn_target, fn_n, fn_lcs>>
    /\ UNCHANGED <<in_vars, run_vars>>

FnNext == CallLcs \/ CallRougeN \/ CallRougeL

SpecFn == FnInit /\ [][FnNext]_vars

(***************************************************************************)
(* rouge_score as a state machine.  pc: "start" (called), "update" (in the *)
(* loop of _rouge_score_update), "done" (returned), "raised" (an exception *)
(* left rouge_score; exc names it).                                        *)
(***************************************************************************)
Init ==
    /\ NLTK_AVAILABLE \in BOOLEAN
    /\ preds \in PredsArgs
    /\ target \in TargetArgs
    /\ accumulate \in ALLOWED_ACCUMULATE_VALUES
    /\ use_stemmer \in BOOLEAN
    /\ rouge_keys \in RougeKeysArgs
    /\ RougeStart
    /\ FnIdle

Raise(e) ==
    /\ pc' = "raised"
    /\ exc' = e
    /\ UNCHANGED <<in_vars, fn_vars, rouge_keys_values, n_done, results, returned>>

\* lines 346-348: the stemmer is asked for and nltk is missing
RaiseStemmerMissing ==
    /\ pc = "start"
    /\ use_stemmer /\ ~NLTK_AVAILABLE
    /\ Raise("ModuleNotFoundError: Stemmer requires nltk")
    /\ UNCHANGED <<list_results, n_tokenized, n_scored>>

\* lines 353-357: a key outside ALLOWED_ROUGE_KEYS
RaiseUnknownKey ==
    /\ pc = "start"
    /\ ~(use_stemmer /\ ~NLTK_AVAILABLE)
    /\ unknown_keys(rouge_keys.keys) # {}
    /\ Raise("ValueError: Got unknown rouge key")
    /\ UNCHANGED <<list_results, n_tokenized, n_scored>>

\* lines 346-369 and 211: the arguments pass; rouge_keys, target and preds
\* are rebound to their normal shapes and _rouge_score_update is entered.
\* Line 358 looks every key up in ALLOWED_ROUGE_KEYS (a KeyError if absent).
Prepare ==
    /\ pc = "start"
    /\ ~(use_stemmer /\ ~NLTK_AVAILABLE)
    /\ unknown_keys(rouge_keys.keys) = {}
    /\ IF \E k \in DOMAIN rouge_keys.keys : rouge_keys.keys[k] \notin DOMAIN ALLOWED_ROUGE_KEYS
       THEN /\ pc' = "raised"
            /\ exc' = "KeyError"
            /\ UNCHANGED <<in_vars, rouge_keys_values, results>>
       ELSE LET values == [k \in DOMAIN rouge_keys.keys |->
                              ALLOWED_ROUGE_KEYS[rouge_keys.keys[k]]]
                flat == target.kind = "list"
            IN  /\ pc' = "update"
                /\ exc' = "none"
                /\ rouge_keys' = [kind |-> "tuple", keys |-> rouge_keys.keys]
                /\ rouge_keys_values' = values
                /\ target' = [kind |-> "nested",
                              sizes |-> IF flat /\ preds.kind = "str"
                                        THEN <<Len(target.sizes)>>
                                        ELSE target.sizes]
                /\ preds' = [kind |-> "list", len |-> preds.len]
                /\ results' = [rouge_key \in Range(values) |-> <<>>]
                /\ UNCHANGED <<NLTK_AVAILABLE, accumulate, use_stemmer>>
    /\ UNCHANGED <<fn_vars, n_done, list_results, returned, n_tokenized, n_scored>>

\* the loop of line 213 has another (pred_raw, target_raw) pair to take
InLoop == pc = "update" /\ n_done < Min(preds.len, Len(target.sizes))

\* lines 217-218 and 44-45: pred is tokenized, then
\* _add_newline_to_end_of_each_sentence raises because nltk is missing
RaiseSplitterMissing ==
    /\ InLoop
    /\ ~NLTK_AVAILABLE
    /\ Raise("ModuleNotFoundError: ROUGE-Lsum calculation requires nltk")
    /\ list_results' = <<>>
    /\ n_tokenized' = n_tokenized + 1
    /\ UNCHANGED n_scored

\* lines 213-244 with accumulate == "best" and no reference: torch.argmax
\* of an empty tensor raises
RaiseArgmaxEmpty ==
    /\ InLoop
    /\ NLTK_AVAILABLE
    /\ accumulate = "best"
    /\ target.sizes[n_done + 1] = 0
    /\ Raise("RuntimeError: argmax of an empty tensor")
    /\ list_results' = <<>>
    /\ n_tokenized' = n_tokenized + 2
    /\ UNCHANGED n_scored

\* lines 216-266 for one (pred_raw, target_raw) pair: list_results, and
\* what is appended to results[rouge_key] for every requested key
example_result(pred_raw, target_raw, keys, stemmer, policy) ==
    LET scores == [k \in DOMAIN target_raw |->
                      reference_scores(pred_raw, target_raw[k], keys, stemmer)]
    IN  [list_results |-> scores,
         appended |-> IF policy = "best" THEN best_result(scores, keys)
                      ELSE avg_result(result_avg_of(scores, keys))]

\* lines 213-266: one pass of the loop over zip(preds, target).  The local
\* list_results is kept in the state only where _rouge_score_update is run
\* on its own (observe).
LoopPass(observe) ==
    /\ InLoop
    /\ NLTK_AVAILABLE
    /\ ~(accumulate = "best" /\ target.sizes[n_done + 1] = 0)
    /\ \E pred_raw \in Texts :
       \E target_raw \in [1..target.sizes[n_done + 1] -> Texts] :
       \E one \in {example_result(pred_raw, target_raw, rouge_keys_values,
                                  use_stemmer, accumulate)} :
          /\ list_results' = IF observe THEN one.list_results ELSE <<>>
          /\ results' = [rouge_key \in DOMAIN results |->
                            results[rouge_key] \o
                               Repeat(one.appended[rouge_key],
                                      Occurrences(rouge_keys_values, rouge_key))]
          /\ n_tokenized' = n_tokenized + 2 + Len(target_raw) *
                 (IF StrKey("Lsum") \in Range(rouge_keys_values) THEN 2 ELSE 1)
          /\ n_scored' = n_scored + Len(target_raw) * Len(rouge_keys_values)
    /\ n_done' = n_done + 1
    /\ UNCHANGED <<in_vars, fn_vars, pc, exc, rouge_keys_values, returned>>

ScoreExample == LoopPass(FALSE)

\* lines 268 and 373-383: zip is exhausted; the values are collected per
\* (key, type) and _rouge_score_compute takes the means
Finish ==
    /\ pc = "update"
    /\ n_done = Min(preds.len, Len(target.sizes))
    /\ pc' = "done"
    /\ returned' = _rouge_score_compute(output_of(results, rouge_keys_values))
    /\ UNCHANGED <<in_vars, fn_vars, exc, rouge_keys_values, n_done, list_results,
                   results, n_tokenized, n_scored>>

(***************************************************************************)
(* _rouge_score_update called on its own, as in its doctest: one           *)
(* prediction with up to MaxUpdateRefs references, every list of one or    *)
(* two keys among 1, 2, "L" and "Lsum", no stemmer, nltk installed.        *)
(***************************************************************************)
MaxUpdateRefs == 3
UpdateKeys == {IntKey(1), IntKey(2), StrKey("L"), StrKey("Lsum")}

UpdateInit ==
    /\ NLTK_AVAILABLE = TRUE
    /\ preds = [kind |-> "list", len |-> 1]
    /\ target \in {[kind |-> "nested", sizes |-> <<n>>] : n \in 0..MaxUpdateRefs}
    /\ accumulate \in ALLOWED_ACCUMULATE_VALUES
    /\ use_stemmer = FALSE
    /\ rouge_keys = [kind |-> "tuple", keys |-> <<>>]
    /\ pc = "update"
    /\ exc = "none"
    /\ rouge_keys_values \in SeqsUpTo(UpdateKeys, MaxKeys) \ {<<>>}
    /\ n_done = 0
    /\ list_results = <<>>
    /\ results = [rouge_key \in Range(rouge_keys_values) |-> <<>>]
    /\ returned = <<>>
    /\ n_tokenized = 0
    /\ n_scored = 0
    /\ FnIdle

UpdateExample == LoopPass(TRUE)

\* line 268
UpdateReturn ==
    /\ pc = "update"
    /\ n_done = Min(preds.len, Len(target.sizes))
    /\ pc' = "returned"
    /\ UNCHANGED <<in_vars, fn_vars, exc, rouge_keys_values, n_done, list_results,
                   results, returned, n_tokenized, n_scored>>

UpdateNext == UpdateExample \/ RaiseArgmaxEmpty \/ UpdateReturn

SpecUpdate == UpdateInit /\ [][UpdateNext]_vars

Next ==
    \/ RaiseStemmerMissing
    \/ RaiseUnknownKey
    \/ Prepare
    \/ RaiseSplitterMissing
    \/ RaiseArgmaxEmpty
    \/ ScoreExample
    \/ Finish

Spec == Init /\ [][Next]_vars

(***************************************************************************)
(* C10: _lcs(pred, target) is the greatest length of a sequence that is a  *)
(* subsequence (not necessarily contiguous) of both pred and target, and   *)
(* so it equals _lcs(target, pred).                                        *)
(***************************************************************************)
IsSubsequence(s, t) ==
    \E idx \in [1..Len(s) -> 1..Len(t)] :
        /\ \A k \in 1..Len(s) : t[idx[k]] = s[k]
        /\ \A k \in 1..Len(s) : \A l \in 1..Len(s) : k < l => idx[k] < idx[l]

CommonSubsequences(p, t) ==
    {s \in SeqsUpTo(Tokens, Min(Len(p), Len(t))) :
        IsSubsequence(s, p) /\ IsSubsequence(s, t)}

C10_LcsIsLongestCommonSubsequence ==
    fn_called = "_lcs" =>
        /\ \E s \in CommonSubsequences(fn_pred, fn_target) : Len(s) = fn_lcs
        /\ \A s \in CommonSubsequences(fn_pred, fn_target) : Len(s) <= fn_lcs
        /\ fn_lcs = _lcs(fn_target, fn_pred)

C10_Witness ==
    /\ fn_called = "_lcs"
    /\ fn_pred = <<<<"a">>, <<"b">>, <<"a">>, <<"b">>>>
    /\ fn_target = <<<<"b">>, <<"b">>, <<"a">>>>
    /\ fn_lcs = 2

(***************************************************************************)
(* C7: _rouge_n_score returns the all-zero triple when the prediction or   *)
(* the target has fewer than n tokens, _rouge_l_score when either is       *)
(* empty; neither raises.                                                  *)
(***************************************************************************)
C7_ZeroLength ==
    /\ (fn_called = "_rouge_n_score" /\ (Len(fn_pred) < fn_n \/ Len(fn_target) < fn_n))
            => fn_score = Triple(Zero, Zero, Zero)
    /\ (fn_called = "_rouge_l_score" /\ (fn_pred = <<>> \/ fn_target = <<>>))
            => fn_score = Triple(Zero, Zero, Zero)

C7_Witness ==
    /\ fn_called = "_rouge_l_score"
    /\ fn_pred = <<>>
    /\ Len(fn_target) = 2
    /\ fn_score = Triple(Zero, Zero, Zero)

(***************************************************************************)
(* C8: a non-empty token sequence scored against itself has precision =    *)
(* recall = fmeasure = 1, for ROUGE-N with every n up to its length and    *)
(* for ROUGE-L.                                                            *)
(***************************************************************************)
C8_SelfOverlap ==
    (fn_pred = fn_target /\ fn_pred # <<>>) =>
        /\ (fn_called = "_rouge_n_score" /\ fn_n <= Len(fn_pred))
                => fn_score = Triple(One, One, One)
        /\ fn_called = "_rouge_l_score" => fn_score = Triple(One, One, One)

C8_Witness ==
    /\ fn_called = "_rouge_n_score"
    /\ fn_pred = <<<<"a">>, <<"a">>, <<"b">>>>
    /\ fn_target = fn_pred
    /\ fn_n = 1
    /\ fn_score = Triple(One, One, One)

(***************************************************************************)
(* The entries of results[key] that the last pass of the loop appended:    *)
(* one per occurrence of the key among the requested keys.                 *)
(***************************************************************************)
LastEntries(key) ==
    LET c == Occurrences(rouge_keys_values, key)
    IN  ((n_done - 1) * c + 1)..(n_done * c)

PassDone == pc \in {"update", "returned", "done"} /\ n_done >= 1 /\ list_results # <<>>

(***************************************************************************)
(* C1: with accumulate = "best" and at least one reference, the pass picks *)
(* the lowest reference index whose fmeasure for the first requested key   *)
(* is maximal, and records that reference's triple for every requested     *)
(* key.                                                                    *)
(***************************************************************************)
C1_BestTakesFirstKeyArgmax ==
    (PassDone /\ accumulate = "best") =>
        LET F(j) == list_results[j][rouge_keys_values[1]].fmeasure
            maximal == {j \in DOMAIN list_results :
                           \A l \in DOMAIN list_results : RatLeq(F(l), F(j))}
            chosen == CHOOSE j \in maximal : \A l \in maximal : j <= l
        IN  /\ maximal # {}
            /\ \A k \in DOMAIN rouge_keys_values :
                   LET key == rouge_keys_values[k]
                   IN  /\ Len(results[key]) = n_done * Occurrences(rouge_keys_values, key)
                       /\ \A pos \in LastEntries(key) :
                              results[key][pos] = list_results[chosen][key]

\* the first reference wins on the first key, the second one scores higher
\* on the other key, and the first reference's triple is recorded for both
C1_Witness ==
    /\ pc = "returned"
    /\ accumulate = "best"
    /\ Len(list_results) = 2
    /\ Len(rouge_keys_values) = 2
    /\ rouge_keys_values[1] # rouge_keys_values[2]
    /\ RatLt(list_results[2][rouge_keys_values[1]].fmeasure,
             list_results[1][rouge_keys_values[1]].fmeasure)
    /\ RatLt(list_results[1][rouge_keys_values[2]].fmeasure,
             list_results[2][rouge_keys_values[2]].fmeasure)
    /\ results[rouge_keys_values[2]] = <<list_results[1][rouge_keys_values[2]]>>

(***************************************************************************)
(* C2: with accumulate = "avg" and at least one reference, each of         *)
(* precision, recall and fmeasure recorded for a key is the unweighted     *)
(* mean of that field over the references' triples for the key.            *)
(***************************************************************************)
C2_AvgIsFieldwiseMean ==
    (PassDone /\ accumulate = "avg") =>
        \A k \in DOMAIN rouge_keys_values :
            LET key == rouge_keys_values[k]
            IN  /\ Len(results[key]) = n_done * Occurrences(rouge_keys_values, key)
                /\ \A pos \in LastEntries(key) :
                       /\ DOMAIN results[key][pos] = Types
                       /\ \A type \in Types :
                              RatMul(results[key][pos][type], Rat(Len(list_results), 1))
                                  = RatSum([j \in DOMAIN list_results |->
                                               list_results[j][key][type]])

\* three references, and a mean fmeasure that is not the harmonic mean of
\* the mean precision and the mean recall
C2_Witness ==
    /\ pc = "returned"
    /\ accumulate = "avg"
    /\ Len(list_results) = 3
    /\ \E key \in DOMAIN results :
          LET m == results[key][1]
          IN  /\ m.precision # Zero
              /\ RatMul(m.fmeasure, RatAdd(m.precision, m.recall))
                     # RatMul(Rat(2, 1), RatMul(m.precision, m.recall))

(***************************************************************************)
(* C3: when the number of predictions differs from the number of           *)
(* reference groups, rouge_score returns no result.                        *)
(***************************************************************************)
C3_MismatchReturnsNothing ==
    pc = "done" => preds.len = Len(target.sizes)

(***************************************************************************)
(* C4: for an empty batch, the result rouge_score returns has no keys.     *)
(***************************************************************************)
C4_EmptyBatchEmptyResult ==
    (pc = "done" /\ preds.len = 0 /\ target.sizes = <<>>) => DOMAIN returned = {}

(***************************************************************************)
(* C5, as claimed: if a requested key is outside rouge1..rouge9, rougeL,   *)
(* rougeLsum, rouge_score raises the input-validation error, before any    *)
(* tokenization or scoring, and returns nothing.                           *)
(***************************************************************************)
AllowedNames ==
    {"rouge1", "rouge2", "rouge3", "rouge4", "rouge5", "rouge6", "rouge7", "rouge8",
     "rouge9", "rougeL", "rougeLsum"}
SomeKeyUnknown == \E k \in DOMAIN rouge_keys.keys : rouge_keys.keys[k] \notin AllowedNames
NothingScored == n_tokenized = 0 /\ n_scored = 0 /\ returned = <<>>

C5_UnknownKeyRaisesValueError ==
    (SomeKeyUnknown /\ pc # "start") =>
        /\ pc = "raised"
        /\ exc = "ValueError: Got unknown rouge key"
        /\ NothingScored

(***************************************************************************)
(* C5, amended: if a requested key is outside the allowed set, rouge_score *)
(* raises before any tokenization or scoring and returns nothing; the      *)
(* error is the input-validation error, unless use_stemmer is set and nltk *)
(* is missing: then it is the missing-stemmer error, raised first.         *)
(***************************************************************************)
C5_UnknownKeyRaisesFirst ==
    (SomeKeyUnknown /\ pc # "start") =>
        /\ pc = "raised"
        /\ exc = IF use_stemmer /\ ~NLTK_AVAILABLE
                 THEN "ModuleNotFoundError: Stemmer requires nltk"
                 ELSE "ValueError: Got unknown rouge key"
        /\ NothingScored

\* the unknown key is the second of two, the batch has two examples
C5_Witness ==
    /\ pc = "raised"
    /\ exc = "ValueError: Got unknown rouge key"
    /\ rouge_keys.keys = <<"rougeLsum", "rouge10">>
    /\ preds.len = 2
    /\ target.sizes = <<2, 1>>
    /\ NothingScored

(***************************************************************************)
(* C6: with valid keys, rouge_score fails with the missing-sentence-       *)
(* splitter error only when rougeLsum is among the requested keys (and     *)
(* then before any score is computed).                                     *)
(***************************************************************************)
C6_SplitterErrorOnlyForLsum ==
    (pc = "raised" /\ exc = "ModuleNotFoundError: ROUGE-Lsum calculation requires nltk") =>
        /\ "rougeLsum" \in Range(rouge_keys.keys)
        /\ ~NLTK_AVAILABLE
        /\ n_scored = 0

(***************************************************************************)
(* C9: every value recorded for an example lies in [0, 1]; and for a       *)
(* non-empty batch in which every prediction has at least one reference,   *)
(* rouge_score returns one value per requested key and field, each in      *)
(* [0, 1].                                                                 *)
(***************************************************************************)
InUnit(x) == x[2] > 0 /\ 0 <= x[1] /\ x[1] <= x[2]

C9_ValuesInUnitInterval ==
    /\ \A key \in DOMAIN results :
           \A pos \in DOMAIN results[key] :
               \A type \in DOMAIN results[key][pos] : InUnit(results[key][pos][type])
    /\ (/\ pc = "done"
        /\ preds.len >= 1
        /\ Len(target.sizes) >= preds.len
        /\ \A g \in 1..preds.len : target.sizes[g] >= 1)
         => /\ DOMAIN returned = Range(rouge_keys_values) \X Types
            /\ \A kt \in DOMAIN returned : InUnit(returned[kt])

\* two examples with two references each, averaged: a batch mean strictly
\* between 0 and 1
C9_Witness ==
    /\ pc = "done"
    /\ accumulate = "avg"
    /\ n_done = 2
    /\ target.sizes = <<2, 2>>
    /\ \E kt \in DOMAIN returned :
          /\ kt[1] = IntKey(1)
          /\ InUnit(returned[kt])
          /\ returned[kt] \notin {Zero, One}
          /\ returned[kt][2] > 4
====
